---- MODULE Spec2Model ----
(***************************************************************************)
(* Model of demo/auth_demo/oauth_demo.py (PardotAuthenticationDemo).       *)
(*                                                                         *)
(* The state is the configuration held by the ConfigParser, the position   *)
(* of run() in its three access patterns, the locals the patterns keep     *)
(* between calls, the exception (if any) that propagated out of run(), the *)
(* last replies of the transport, and the sequence of requests issued.     *)
(*                                                                         *)
(* Python values are represented as follows.  A dict is a function whose   *)
(* domain is the set of its keys.  None is the string NoneValue.  The      *)
(* salesforce password and token are sequences of characters, so that      *)
(* `password + token' is sequence concatenation.  An f-string is the       *)
(* sequence of its parts, the interpolated part converted by Str.          *)
(***************************************************************************)
EXTENDS Integers, Sequences, FiniteSets, TLC

VARIABLES parser, blk, pc, error, auth_handler, pd, access_token,
          bus_unit_id, prospects, r, response, net, call

vars == <<parser, blk, pc, error, auth_handler, pd, access_token,
          bus_unit_id, prospects, r, response, net, call>>

(***************************************************************************)
(* Bounds of the model.                                                    *)
(***************************************************************************)
\* at most this many keys are missing from a section that is present
MaxMissing == 1
\* longest prospect list a reply carries
MaxProspects == 2

(***************************************************************************)
(* Python values.                                                          *)
(***************************************************************************)
NoneValue == "<None>"

\* str(v) as the f-string of line 159 applies it
Str(v) == IF v = NoneValue THEN "None" ELSE v

EmptyDict == [k \in {} |-> k]

\* dict.get(key): the value, or None when the key is absent
DictGet(d, key) == IF key \in DOMAIN d THEN d[key] ELSE NoneValue

\* an exception: its class, the function that raised it, its argument
NoError == [type |-> "none", at |-> "", arg |-> <<>>]

Err(type, at, arg) == [type |-> type, at |-> at, arg |-> arg]

Returned(v) == [raised |-> FALSE, error |-> NoError, value |-> v]

Raised(e) == [raised |-> TRUE, error |-> e, value |-> NoneValue]

(***************************************************************************)
(* Section names and str.startswith.                                       *)
(***************************************************************************)
Chars(s) ==
    CASE s = "pardot" -> <<"p","a","r","d","o","t">>
      [] s = "pardot_sandbox" ->
            <<"p","a","r","d","o","t","_","s","a","n","d","b","o","x">>
      [] s = "salesforce" -> <<"s","a","l","e","s","f","o","r","c","e">>
      [] s = "salesforce_sandbox" ->
            <<"s","a","l","e","s","f","o","r","c","e","_","s","a","n","d","b","o","x">>
      [] s = "test_data" -> <<"t","e","s","t","_","d","a","t","a">>
      [] s = "pard" -> <<"p","a","r","d">>
      [] s = "my_pardot" -> <<"m","y","_","p","a","r","d","o","t">>
      [] s = "Salesforce" -> <<"S","a","l","e","s","f","o","r","c","e">>
      [] s = "" -> <<>>

StartsWith(s, prefix) ==
    LET cs == Chars(s)
        cp == Chars(prefix)
    IN  /\ Len(cp) <= Len(cs)
        /\ SubSeq(cs, 1, Len(cp)) = cp

(***************************************************************************)
(* The configuration file as read by ConfigParser.read (line 38).          *)
(***************************************************************************)
ConfigSections == {"test_data", "pardot", "pardot_sandbox", "salesforce"}

AllKeys(s) ==
    CASE s = "test_data" -> {"prospect_email", "prospect_date_filter"}
      [] s = "pardot" -> {"username", "password", "userkey"}
      [] s = "pardot_sandbox" -> {"username", "password", "userkey"}
      [] s = "salesforce" -> {"user", "password", "consumer_key",
                              "consumer_secret", "business_unit_id", "token"}

Passwords == {<<"p">>, <<"p","t">>}

Tokens == {<<"t">>, <<>>}

ConfigValue(s, k, pw, tk) ==
    CASE s = "salesforce" /\ k = "password" -> pw
      [] s = "salesforce" /\ k = "token" -> tk
      [] s = "salesforce" /\ k = "user" -> "eb@x.com"
      [] s = "salesforce" /\ k = "consumer_key" -> "ck"
      [] s = "salesforce" /\ k = "consumer_secret" -> "cs"
      [] s = "salesforce" /\ k = "business_unit_id" -> "BU1"
      [] s = "pardot" /\ k = "username" -> "pu"
      [] s = "pardot" /\ k = "password" -> "pp"
      [] s = "pardot" /\ k = "userkey" -> "pk"
      [] s = "pardot_sandbox" /\ k = "username" -> "su"
      [] s = "pardot_sandbox" /\ k = "password" -> "sp"
      [] s = "pardot_sandbox" /\ k = "userkey" -> "sk"
      [] s = "test_data" /\ k = "prospect_email" -> "a@x.com"
      [] s = "test_data" /\ k = "prospect_date_filter" -> "2020-06-30"

KeySets(s) ==
    {AllKeys(s) \ M : M \in {X \in SUBSET AllKeys(s) : Cardinality(X) <= MaxMissing}}

SectionOptions(s) ==
    {[present |-> FALSE, keys |-> {}]} \cup
    {[present |-> TRUE, keys |-> K] : K \in KeySets(s)}

MakeConfig(o, pw, tk) ==
    [s \in {x \in ConfigSections : o[x].present} |->
        [k \in o[s].keys |-> ConfigValue(s, k, pw, tk)]]

Configs ==
    { MakeConfig([test_data |-> o1, pardot |-> o2, pardot_sandbox |-> o3,
                  salesforce |-> o4], pw, tk) :
      o1 \in SectionOptions("test_data"), o2 \in SectionOptions("pardot"),
      o3 \in SectionOptions("pardot_sandbox"), o4 \in SectionOptions("salesforce"),
      pw \in Passwords, tk \in Tokens }

(***************************************************************************)
(* ConfigParser.get and ConfigParser.sections.                             *)
(***************************************************************************)
\* parser.sections(): the names of the sections read from the file
sections == DOMAIN parser

\* parser.get(section, option): the value, or NoSectionError / NoOptionError
ParserGet(section, option, at) ==
    IF section \notin sections
    THEN Raised(Err("NoSectionError", at, <<section>>))
    ELSE IF option \notin DOMAIN parser[section]
         THEN Raised(Err("NoOptionError", at, <<option>>))
         ELSE Returned(parser[section][option])

\* parser.get(section, option, fallback=fallback): never raises
ParserGetFallback(section, option, fallback) ==
    IF section \in sections /\ option \in DOMAIN parser[section]
    THEN parser[section][option]
    ELSE fallback

(***************************************************************************)
(* The handler classes of auth_handler (value objects).                    *)
(***************************************************************************)
NoHandler == [variant |-> "None"]

TraditionalAuthHandler(username, password, userkey) ==
    [variant |-> "Traditional", username |-> username, password |-> password,
     userkey |-> userkey]

OAuthHandler(username, password, consumer_key, consumer_secret, business_unit_id, token) ==
    [variant |-> "OAuth", username |-> username, password |-> password,
     consumer_key |-> consumer_key, consumer_secret |-> consumer_secret,
     business_unit_id |-> business_unit_id, token |-> token]

(***************************************************************************)
(* get_auth_handler (lines 179-192).  The arguments of the constructor are *)
(* evaluated left to right, so the first absent key is the one reported.   *)
(* A name with neither prefix falls off the end of the function: the call  *)
(* returns None.                                                           *)
(***************************************************************************)
get_auth_handler_lenient(section_name) ==
    LET g(k) == ParserGetFallback(section_name, k, NoneValue)
    IN  IF StartsWith(section_name, "pardot")
        THEN Returned(TraditionalAuthHandler(g("username"), g("password"),
                                             g("userkey")))
        ELSE IF StartsWith(section_name, "salesforce")
        THEN Returned(OAuthHandler(g("user"), g("password"), g("consumer_key"),
                                   g("consumer_secret"), g("business_unit_id"),
                                   g("token")))
        ELSE Returned(NoHandler)

get_auth_handler(section_name) ==
    LET g(k) == ParserGet(section_name, k, "get_auth_handler")
    IN  IF StartsWith(section_name, "pardot")
        THEN IF g("username").raised THEN g("username")
             ELSE IF g("password").raised THEN g("password")
             ELSE IF g("userkey").raised THEN g("userkey")
             ELSE Returned(TraditionalAuthHandler(g("username").value,
                                                  g("password").value,
                                                  g("userkey").value))
        ELSE IF StartsWith(section_name, "salesforce")
        THEN IF g("user").raised THEN g("user")
             ELSE IF g("password").raised THEN g("password")
             ELSE IF g("consumer_key").raised THEN g("consumer_key")
             ELSE IF g("consumer_secret").raised THEN g("consumer_secret")
             ELSE IF g("business_unit_id").raised THEN g("business_unit_id")
             ELSE IF g("token").raised THEN g("token")
             ELSE Returned(OAuthHandler(g("user").value, g("password").value,
                                        g("consumer_key").value,
                                        g("consumer_secret").value,
                                        g("business_unit_id").value,
                                        g("token").value))
        ELSE Returned(NoHandler)

(***************************************************************************)
(* has_sections (lines 194-200).                                           *)
(***************************************************************************)
has_sections_any(names) ==
    LET missing == SelectSeq(names, LAMBDA s : s \notin sections)
    IN  Len(missing) < Len(names)

has_sections(names) ==
    LET missing == SelectSeq(names, LAMBDA s : s \notin sections)
        valid == Len(missing) = 0
    IN  valid

(***************************************************************************)
(* Replies of the transport (requests.post(...).json()) and of the client  *)
(* library.                                                                *)
(***************************************************************************)
NoReply == [kind |-> "none"]

TransportError == [kind |-> "transport_error"]

Json(body) == [kind |-> "json", body |-> body]

ProspectIds == {"p1", "p2"}

ProspectLists ==
    UNION {[1..n -> ProspectIds] : n \in 0..MaxProspects}

IdPBodies ==
    { EmptyDict,
      ("error" :> "invalid_grant"),
      ("access_token" :> "ABC") @@ ("instance_url" :> "https://x.my.salesforce.com"),
      ("access_token" :> "XYZ") @@ ("instance_url" :> "https://x.my.salesforce.com") }

IdPReplies == {TransportError} \cup {Json(b) : b \in IdPBodies}

StatValues == {"ok", "fail", "15"}

AttributesDicts == {EmptyDict} \cup {("stat" :> st) : st \in StatValues}

ResultDicts == {EmptyDict} \cup {("prospect" :> l) : l \in ProspectLists}

Envelopes ==
    {EmptyDict}
    \cup {("@attributes" :> a) : a \in AttributesDicts}
    \cup {("result" :> res) : res \in ResultDicts}
    \cup {("@attributes" :> a) @@ ("result" :> res) :
            a \in AttributesDicts, res \in ResultDicts}

ProviderReplies == {TransportError} \cup {Json(e) : e \in Envelopes}

(***************************************************************************)
(* Requests, as recorded in net.                                           *)
(***************************************************************************)
Request(kind, op, params, headers) ==
    [kind |-> kind, op |-> op, params |-> params, headers |-> headers]

\* the prospect_date_filter of lines 127 and 156
ProspectDateFilterNoFallback ==
    ParserGetFallback("test_data", "prospect_date_filter", NoneValue)

ProspectDateFilter ==
    ParserGetFallback("test_data", "prospect_date_filter", "2021-01-01")

(***************************************************************************)
(* retrieve_access_token (lines 136-153), given the reply of the IdP.      *)
(* The result lists the requests issued, whether the call raised, and the  *)
(* pair returned.                                                          *)
(***************************************************************************)
TokenParamsReversed(h) ==
    ("grant_type" :> "password") @@ ("client_id" :> h.consumer_key)
    @@ ("client_secret" :> h.consumer_secret) @@ ("username" :> h.username)
    @@ ("password" :> h.token \o h.password)

\* params of lines 139-145
TokenParams(h) ==
    ("grant_type" :> "password") @@ ("client_id" :> h.consumer_key)
    @@ ("client_secret" :> h.consumer_secret) @@ ("username" :> h.username)
    @@ ("password" :> h.password \o h.token)

TokenOfBodyStrict(body) ==
    IF "access_token" \in DOMAIN body
    THEN Returned(body["access_token"])
    ELSE Raised(Err("KeyError", "retrieve_access_token", <<"access_token">>))

\* r.json().get("access_token") of line 148
TokenOfBody(body) == Returned(DictGet(body, "access_token"))

retrieve_access_token(reply) ==
    LET h == get_auth_handler("salesforce")
    IN  IF h.raised
        THEN [raised |-> TRUE, error |-> h.error, requests |-> <<>>,
              access_token |-> NoneValue, bus_unit_id |-> NoneValue]
        ELSE
          LET req == Request("auth", "idp_token", TokenParams(h.value), EmptyDict)
          IN  IF reply.kind = "transport_error"
              THEN [raised |-> TRUE,
                    error |-> Err("RequestException", "retrieve_access_token", <<>>),
                    requests |-> <<req>>,
                    access_token |-> NoneValue, bus_unit_id |-> NoneValue]
              ELSE IF TokenOfBody(reply.body).raised
              THEN [raised |-> TRUE, error |-> TokenOfBody(reply.body).error,
                    requests |-> <<req>>,
                    access_token |-> NoneValue, bus_unit_id |-> NoneValue]
              ELSE [raised |-> FALSE, error |-> NoError, requests |-> <<req>>,
                    access_token |-> TokenOfBody(reply.body).value,
                    bus_unit_id |-> h.value.business_unit_id]

(***************************************************************************)
(* send_pardot_request (lines 155-177), given the reply of the Provider.   *)
(***************************************************************************)
PardotHeadersNoUnit(token, unit) ==
    ("Authorization" :> <<"Bearer ", Str(token)>>)
    @@ ("Pardot-Business-Unit-Id" :> NoneValue)
    @@ ("Content-Type" :> "application/x-www-form-urlencoded")

\* headers of lines 159-162
PardotHeaders(token, unit) ==
    ("Authorization" :> <<"Bearer ", Str(token)>>)
    @@ ("Pardot-Business-Unit-Id" :> unit)
    @@ ("Content-Type" :> "application/x-www-form-urlencoded")

NoProspects == [kind |-> "unset", items |-> <<>>]

ProspectsOf(l) == [kind |-> "list", items |-> l]

ValidateEnvelopeNoStatCheck(env) ==
    IF "result" \notin DOMAIN env
    THEN Raised(Err("KeyError", "send_pardot_request", <<"result">>))
    ELSE IF "prospect" \notin DOMAIN env["result"]
    THEN Raised(Err("KeyError", "send_pardot_request", <<"prospect">>))
    ELSE Returned(ProspectsOf(env["result"]["prospect"]))

\* lines 167-172: the checks of the envelope and the read of result.prospect
ValidateEnvelope(env) ==
    IF "@attributes" \notin DOMAIN env \/ "stat" \notin DOMAIN env["@attributes"]
    THEN Raised(Err("ValueError", "send_pardot_request",
                    <<"Pardot Request Failure: Corrupted Response">>))
    ELSE IF env["@attributes"]["stat"] # "ok"
    THEN Raised(Err("ValueError", "send_pardot_request",
                    <<"Pardot Request Failure: ", Str(env["@attributes"]["stat"])>>))
    ELSE IF "result" \notin DOMAIN env
    THEN Raised(Err("KeyError", "send_pardot_request", <<"result">>))
    ELSE IF "prospect" \notin DOMAIN env["result"]
    THEN Raised(Err("KeyError", "send_pardot_request", <<"prospect">>))
    ELSE Returned(ProspectsOf(env["result"]["prospect"]))

send_pardot_request(token, unit, reply) ==
    LET params == ("format" :> "json") @@ ("created_after" :> ProspectDateFilter)
        req == Request("resource", "pardot_query", params, PardotHeaders(token, unit))
    IN  IF reply.kind = "transport_error"
        THEN [raised |-> TRUE,
              error |-> Err("RequestException", "send_pardot_request", <<>>),
              requests |-> <<req>>, value |-> NoProspects]
        ELSE [raised |-> ValidateEnvelope(reply.body).raised,
              error |-> ValidateEnvelope(reply.body).error,
              requests |-> <<req>>,
              value |-> IF ValidateEnvelope(reply.body).raised
                        THEN NoProspects
                        ELSE ValidateEnvelope(reply.body).value]

(***************************************************************************)
(* The client library (client.PardotAPI, auth_pardot_api.AuthPardotAPI).   *)
(* authenticate() is one authentication round trip; a client built from an *)
(* OAuth handler that was never authenticated acquires its token before    *)
(* its first resource call.                                                *)
(***************************************************************************)
NoClient == [api |-> "none", authenticated |-> FALSE]

Client(api) == [api |-> api, authenticated |-> FALSE]

LibOutcomes == {"ok", "fail"}

LibReadBodies == {EmptyDict, ("prospect" :> "p1")}

LibQueryBodies == {EmptyDict} \cup {("prospect" :> l) : l \in ProspectLists}

\* the requests pd.authenticate() issues
PdAuthenticate(h) ==
    <<Request("auth", "authenticate", ("username" :> h.username), EmptyDict)>>

\* the authentication a resource call of an unauthenticated client performs
PdEnsureAuthenticated(client, h) ==
    IF client.authenticated THEN <<>> ELSE PdAuthenticate(h)

(***************************************************************************)
(* The blocks of run(): the three guarded blocks of                        *)
(* access_pardot_via_traditional_api (1, 2, 3), the block of               *)
(* access_pardot_via_oauth_using_raw_requests (4) and the block of         *)
(* access_pardot_via_oauth_api (5).                                        *)
(***************************************************************************)
Blocks == 1..5

Pattern(b) ==
    CASE b \in {1, 2, 3} -> "traditional"
      [] b = 4 -> "raw"
      [] b = 5 -> "oauth_api"
      [] OTHER -> "none"

\* the argument of has_sections at lines 73, 80, 87, 63, 101
BlockSections(b) ==
    CASE b \in {1, 2} -> <<"test_data", "pardot">>
      [] b = 3 -> <<"test_data", "pardot_sandbox">>
      [] b \in {4, 5} -> <<"test_data", "salesforce">>

\* the argument of get_auth_handler at lines 74, 81, 88, 138, 102
BlockSection(b) == BlockSections(b)[2]

\* the client class constructed at lines 75, 82, 89, 103
BlockApi(b) == IF b = 1 THEN "PardotAPI" ELSE "AuthPardotAPI"

StepAfterReauthenticating(b, p) ==
    CASE p = "check" -> IF b = 4 THEN "retrieve_token" ELSE "handler"
      [] p = "handler" -> IF b \in {1, 2, 3} THEN "authenticate" ELSE "read_by_email"
      [] p = "authenticate" -> "read_by_email"
      [] p = "read_by_email" -> "query"
      [] p = "query" -> IF b = 5 THEN "handler" ELSE "return"
      [] p = "retrieve_token" -> "send_request"
      [] p = "send_request" -> "return"

\* the statement that follows statement p of block b when p does not raise
StepAfter(b, p) ==
    CASE p = "check" -> IF b = 4 THEN "retrieve_token" ELSE "handler"
      [] p = "handler" -> IF b \in {1, 2, 3} THEN "authenticate" ELSE "read_by_email"
      [] p = "authenticate" -> "read_by_email"
      [] p = "read_by_email" -> "query"
      [] p = "query" -> "return"
      [] p = "retrieve_token" -> "send_request"
      [] p = "send_request" -> "return"

RunningIsolated == pc \notin {"done", "call", "called"}

\* run() has no try/except: once an exception is raised nothing else runs
Running == error = NoError /\ pc \notin {"done", "call", "called"}

Sent(reqs) == [i \in 1..Len(reqs) |-> [blk |-> blk] @@ reqs[i]]

\* leave block blk for the next one, the block's locals no longer in use
LeaveBlock ==
    /\ blk' = blk + 1
    /\ pc' = IF blk = 5 THEN "done" ELSE "check"
    /\ auth_handler' = NoHandler
    /\ pd' = NoClient
    /\ access_token' = NoneValue
    /\ bus_unit_id' = NoneValue
    /\ prospects' = NoProspects
    /\ r' = NoReply
    /\ response' = NoReply

NoCall == [fn |-> "none"]

Init ==
    /\ parser \in Configs
    /\ blk = 1
    /\ pc = "check"
    /\ error = NoError
    /\ auth_handler = NoHandler
    /\ pd = NoClient
    /\ access_token = NoneValue
    /\ bus_unit_id = NoneValue
    /\ prospects = NoProspects
    /\ r = NoReply
    /\ response = NoReply
    /\ net = <<>>
    /\ call = NoCall

\* `if self.has_sections([...]):' at lines 63, 73, 80, 87, 101
CheckSections ==
    /\ Running
    /\ pc = "check"
    /\ IF has_sections(BlockSections(blk))
       THEN /\ pc' = StepAfter(blk, "check")
            /\ UNCHANGED <<blk, auth_handler, pd, access_token, bus_unit_id,
                           prospects, r, response>>
       ELSE LeaveBlock
    /\ UNCHANGED <<parser, error, net, call>>

\* lines 74-75, 81-82, 88-89, 102-103: the handler and the client
BuildHandler ==
    /\ Running
    /\ pc = "handler"
    /\ LET res == get_auth_handler(BlockSection(blk))
       IN  IF res.raised
           THEN /\ error' = res.error
                /\ UNCHANGED <<pc, auth_handler, pd>>
           ELSE /\ auth_handler' = res.value
                /\ pd' = Client(BlockApi(blk))
                /\ pc' = StepAfter(blk, "handler")
                /\ UNCHANGED error
    /\ UNCHANGED <<parser, blk, access_token, bus_unit_id, prospects, r,
                   response, net, call>>

\* pd.authenticate() at lines 76, 83, 90
Authenticate ==
    /\ Running
    /\ pc = "authenticate"
    /\ net' = net \o Sent(PdAuthenticate(auth_handler))
    /\ \E outcome \in LibOutcomes :
         IF outcome = "ok"
         THEN /\ pd' = [pd EXCEPT !.authenticated = TRUE]
              /\ pc' = StepAfter(blk, "authenticate")
              /\ UNCHANGED error
         ELSE /\ error' = Err("AuthenticationFailure", "authenticate", <<>>)
              /\ UNCHANGED <<pc, pd>>
    /\ UNCHANGED <<parser, blk, auth_handler, access_token, bus_unit_id,
                   prospects, r, response, call>>

\* query_pardot_api, lines 121-125: the point lookup
ReadByEmail ==
    /\ Running
    /\ pc = "read_by_email"
    /\ LET email == ParserGet("test_data", "prospect_email", "query_pardot_api")
           auth == PdEnsureAuthenticated(pd, auth_handler)
           req == Request("resource", "read_by_email",
                          ("email" :> email.value), EmptyDict)
       IN  IF email.raised
           THEN /\ error' = email.error
                /\ UNCHANGED <<pc, pd, net>>
           ELSE \E authOutcome \in LibOutcomes, outcome \in LibOutcomes,
                   body \in LibReadBodies :
                  IF auth # <<>> /\ authOutcome = "fail"
                  THEN /\ net' = net \o Sent(auth)
                       /\ error' = Err("AuthenticationFailure", "read_by_email", <<>>)
                       /\ UNCHANGED <<pc, pd>>
                  ELSE /\ net' = net \o Sent(auth \o <<req>>)
                       /\ pd' = [pd EXCEPT !.authenticated = TRUE]
                       /\ IF outcome = "fail"
                          THEN /\ error' = Err("RequestException", "read_by_email", <<>>)
                               /\ UNCHANGED pc
                          ELSE IF "prospect" \notin DOMAIN body
                          THEN /\ error' = Err("KeyError", "query_pardot_api",
                                               <<"prospect">>)
                               /\ UNCHANGED pc
                          ELSE /\ pc' = StepAfter(blk, "read_by_email")
                               /\ UNCHANGED error
    /\ UNCHANGED <<parser, blk, auth_handler, access_token, bus_unit_id,
                   prospects, r, response, call>>

\* query_pardot_api, lines 127-134: the filtered listing
QueryProspects ==
    /\ Running
    /\ pc = "query"
    /\ LET req == Request("resource", "query",
                          ("created_after" :> ProspectDateFilter), EmptyDict)
       IN  /\ net' = net \o Sent(<<req>>)
           /\ \E outcome \in LibOutcomes, body \in LibQueryBodies :
                IF outcome = "fail"
                THEN /\ error' = Err("RequestException", "query", <<>>)
                     /\ UNCHANGED pc
                ELSE IF "prospect" \notin DOMAIN body
                THEN /\ error' = Err("KeyError", "query_pardot_api", <<"prospect">>)
                     /\ UNCHANGED pc
                ELSE /\ pc' = StepAfter(blk, "query")
                     /\ UNCHANGED error
    /\ UNCHANGED <<parser, blk, auth_handler, pd, access_token, bus_unit_id,
                   prospects, r, response, call>>

\* line 64: access_token, bus_unit_id = self.retrieve_access_token()
RetrieveAccessToken ==
    /\ Running
    /\ pc = "retrieve_token"
    /\ \E reply \in IdPReplies :
         LET res == retrieve_access_token(reply)
         IN  /\ net' = net \o Sent(res.requests)
             /\ r' = IF res.requests = <<>> THEN r ELSE reply
             /\ IF res.raised
                THEN /\ error' = res.error
                     /\ UNCHANGED <<pc, access_token, bus_unit_id>>
                ELSE /\ access_token' = res.access_token
                     /\ bus_unit_id' = res.bus_unit_id
                     /\ pc' = StepAfter(blk, "retrieve_token")
                     /\ UNCHANGED error
    /\ UNCHANGED <<parser, blk, auth_handler, pd, prospects, response, call>>

\* line 65: prospects = self.send_pardot_request(access_token, bus_unit_id)
SendPardotRequest ==
    /\ Running
    /\ pc = "send_request"
    /\ \E reply \in ProviderReplies :
         LET res == send_pardot_request(access_token, bus_unit_id, reply)
         IN  /\ net' = net \o Sent(res.requests)
             /\ response' = reply
             /\ IF res.raised
                THEN /\ error' = res.error
                     /\ UNCHANGED <<pc, prospects>>
                ELSE /\ prospects' = res.value
                     /\ pc' = StepAfter(blk, "send_request")
                     /\ UNCHANGED error
    /\ UNCHANGED <<parser, blk, auth_handler, pd, access_token, bus_unit_id,
                   r, call>>

\* the end of a block that ran: lines 66, 77, 84, 91-92, 104-105
Return ==
    /\ Running
    /\ pc = "return"
    /\ LeaveBlock
    /\ UNCHANGED <<parser, error, net, call>>

Next ==
    \/ CheckSections
    \/ BuildHandler
    \/ Authenticate
    \/ ReadByEmail
    \/ QueryProspects
    \/ RetrieveAccessToken
    \/ SendPardotRequest
    \/ Return

Spec == Init /\ [][Next]_vars

(***************************************************************************)
(* A second specification: get_auth_handler and has_sections called by any *)
(* caller, on any section name, over every configuration.                  *)
(***************************************************************************)
CallNames ==
    {"pardot", "pardot_sandbox", "salesforce", "salesforce_sandbox",
     "test_data", "pard", "my_pardot", "Salesforce", ""}

CallSectionLists ==
    {<<>>} \cup {<<a>> : a \in ConfigSections}
    \cup {<<a, b>> : a \in ConfigSections, b \in ConfigSections}

InitCalls ==
    /\ parser \in Configs
    /\ blk = 1
    /\ pc = "call"
    /\ error = NoError
    /\ auth_handler = NoHandler
    /\ pd = NoClient
    /\ access_token = NoneValue
    /\ bus_unit_id = NoneValue
    /\ prospects = NoProspects
    /\ r = NoReply
    /\ response = NoReply
    /\ net = <<>>
    /\ call = NoCall

CallGetAuthHandler ==
    /\ pc = "call"
    /\ \E n \in CallNames :
         call' = [fn |-> "get_auth_handler", arg |-> <<n>>,
                  result |-> get_auth_handler(n)]
    /\ pc' = "called"
    /\ UNCHANGED <<parser, blk, error, auth_handler, pd, access_token,
                   bus_unit_id, prospects, r, response, net>>

CallHasSections ==
    /\ pc = "call"
    /\ \E names \in CallSectionLists :
         call' = [fn |-> "has_sections", arg |-> names,
                  result |-> Returned(has_sections(names))]
    /\ pc' = "called"
    /\ UNCHANGED <<parser, blk, error, auth_handler, pd, access_token,
                   bus_unit_id, prospects, r, response, net>>

NextCalls ==
    \/ CallGetAuthHandler
    \/ CallHasSections

SpecCalls == InitCalls /\ [][NextCalls]_vars

(***************************************************************************)
(* Both uses of the class together: run(), or one direct call.             *)
(***************************************************************************)
InitAny == Init \/ InitCalls

NextAny == Next \/ NextCalls

SpecAny == InitAny /\ [][NextAny]_vars

(***************************************************************************)
(* Vocabulary of the properties.                                           *)
(***************************************************************************)
\* the requests of block b, in the order issued
NetOf(b) == SelectSeq(net, LAMBDA e : e.blk = b)

\* the requests of a pattern, in the order issued
NetOfPattern(p) == SelectSeq(net, LAMBDA e : Pattern(e.blk) = p)

CountKind(reqs, k) == Len(SelectSeq(reqs, LAMBDA e : e.kind = k))

CountOp(reqs, o) == Len(SelectSeq(reqs, LAMBDA e : e.op = o))

\* no authentication request follows a resource request
AuthFirst(reqs) ==
    \A i, j \in 1..Len(reqs) :
        (i < j /\ reqs[i].kind = "resource") => reqs[j].kind # "auth"

\* every section block b names in its guard is in the configuration
AllPresent(b) ==
    \A i \in 1..Len(BlockSections(b)) : BlockSections(b)[i] \in DOMAIN parser

TraditionalKeys == {"username", "password", "userkey"}

OAuthKeys == {"user", "password", "consumer_key", "consumer_secret",
              "business_unit_id", "token"}

\* the credential keys the variant of block b needs and its section lacks
MissingKeys(b) ==
    IF ~AllPresent(b) THEN {}
    ELSE (IF b \in {1, 2, 3} THEN TraditionalKeys ELSE OAuthKeys)
         \ DOMAIN parser[BlockSection(b)]

\* the statement of block b inside which the handler is constructed
HandlerStep(b) == IF b = 4 THEN "retrieve_token" ELSE "handler"

(***************************************************************************)
(* Properties.                                                             *)
(***************************************************************************)

\* C1: after send_pardot_request has received an envelope: an envelope
\* without '@attributes' or without '@attributes.stat' made the call raise
\* the Corrupted Response error; a stat other than "ok" made it raise the
\* request-failure error carrying that stat; and a prospect list was
\* returned only for stat "ok", and is the envelope's result.prospect.
C1_EnvelopeValidation ==
    /\ (blk = 4 /\ response.kind = "json") =>
         LET env == response.body
             hasStat == /\ "@attributes" \in DOMAIN env
                        /\ "stat" \in DOMAIN env["@attributes"]
         IN  /\ ~hasStat =>
                  /\ error = Err("ValueError", "send_pardot_request",
                                 <<"Pardot Request Failure: Corrupted Response">>)
                  /\ prospects = NoProspects
             /\ (hasStat /\ env["@attributes"]["stat"] # "ok") =>
                  /\ error = Err("ValueError", "send_pardot_request",
                                 <<"Pardot Request Failure: ",
                                   env["@attributes"]["stat"]>>)
                  /\ prospects = NoProspects
             /\ prospects # NoProspects =>
                  /\ hasStat
                  /\ env["@attributes"]["stat"] = "ok"
                  /\ error = NoError
                  /\ prospects.items = env["result"]["prospect"]
    /\ prospects # NoProspects => (blk = 4 /\ response.kind = "json")

\* C1 witness: the Provider answered with stat "fail" and the call raised
C1_Witness ==
    /\ blk = 4
    /\ pc = "send_request"
    /\ response.kind = "json"
    /\ "@attributes" \in DOMAIN response.body
    /\ "stat" \in DOMAIN response.body["@attributes"]
    /\ response.body["@attributes"]["stat"] = "fail"
    /\ "result" \in DOMAIN response.body
    /\ error.type = "ValueError"

PardotPrefixed == {"pardot", "pardot_sandbox"}

SalesforcePrefixed == {"salesforce", "salesforce_sandbox"}

\* C2: get_auth_handler on a name starting with "pardot" yields a
\* Traditional handler, on a name starting with "salesforce" an OAuth
\* handler, and on any other name the call fails (it returns neither a
\* handler nor an empty value).
C2_PrefixSelectsVariantOrRejects ==
    call.fn = "get_auth_handler" =>
        LET n == call.arg[1]
            res == call.result
        IN  /\ (n \in PardotPrefixed /\ ~res.raised) =>
                  res.value.variant = "Traditional"
            /\ (n \in SalesforcePrefixed /\ ~res.raised) =>
                  res.value.variant = "OAuth"
            /\ n \notin (PardotPrefixed \cup SalesforcePrefixed) => res.raised

\* C3: every request to the IdP token endpoint carries as 'password' the
\* configured password followed by the configured token, with
\* grant_type=password, client_id the consumer key, client_secret the
\* consumer secret and username the configured user.
C3_PasswordThenToken ==
    \A i \in 1..Len(net) :
        net[i].op = "idp_token" =>
            LET sf == parser["salesforce"]
                q == net[i].params
            IN  /\ DOMAIN q = {"grant_type", "client_id", "client_secret",
                               "username", "password"}
                /\ q["password"] = sf["password"] \o sf["token"]
                /\ q["grant_type"] = "password"
                /\ q["client_id"] = sf["consumer_key"]
                /\ q["client_secret"] = sf["consumer_secret"]
                /\ q["username"] = sf["user"]

\* C3 witness: a token request was sent for password "p" and token "t",
\* where the reverse order would read differently
C3_Witness ==
    /\ \E i \in 1..Len(net) :
         net[i].op = "idp_token" /\ net[i].params["password"] = <<"p", "t">>
    /\ "salesforce" \in DOMAIN parser
    /\ "token" \in DOMAIN parser["salesforce"]
    /\ parser["salesforce"]["token"] = <<"t">>

\* C4: in the raw-request pattern a Provider query is preceded by exactly
\* one request to the IdP token endpoint of the same pattern, and it carries
\* 'Authorization: Bearer <the access_token that IdP call returned>' and
\* 'Pardot-Business-Unit-Id: <business_unit_id of the salesforce section>'.
C4_TokenThenQuery ==
    /\ CountOp(NetOfPattern("raw"), "idp_token") <= 1
    /\ CountOp(NetOfPattern("raw"), "pardot_query") <= 1
    /\ \A i \in 1..Len(net) :
         net[i].op = "pardot_query" =>
            /\ net[i].blk = 4
            /\ CountOp(NetOfPattern("raw"), "idp_token") = 1
            /\ \E j \in 1..(i - 1) : net[j].op = "idp_token" /\ net[j].blk = 4
            /\ net[i].headers["Pardot-Business-Unit-Id"] =
                   parser["salesforce"]["business_unit_id"]
            /\ (blk = 4 /\ "access_token" \in DOMAIN r.body) =>
                   net[i].headers["Authorization"] =
                       <<"Bearer ", r.body["access_token"]>>
    /\ \A i \in 1..Len(net) : net[i].op = "idp_token" => net[i].blk = 4

\* C4 witness: the Provider query went out with the token "XYZ" the IdP
\* returned
C4_Witness ==
    /\ blk = 4
    /\ r.kind = "json"
    /\ "access_token" \in DOMAIN r.body
    /\ r.body["access_token"] = "XYZ"
    /\ \E i \in 1..Len(net) :
         /\ net[i].op = "pardot_query"
         /\ net[i].headers["Authorization"] = <<"Bearer ", "XYZ">>
         /\ net[i].headers["Pardot-Business-Unit-Id"] = "BU1"

\* C5: when the IdP answers with a body that has no 'access_token',
\* retrieve_access_token does not raise: it returns the absent value (None)
\* as bearer value together with the business_unit_id of the handler, and
\* the pattern goes on to issue the Provider query with that value, which
\* the header renders as "Bearer None".
C5_BlankTokenProceeds ==
    (blk = 4 /\ r.kind = "json" /\ "access_token" \notin DOMAIN r.body) =>
        /\ pc \in {"send_request", "return"}
        /\ access_token = NoneValue
        /\ bus_unit_id = parser["salesforce"]["business_unit_id"]
        /\ (pc = "send_request" /\ error = NoError) =>
              /\ CountOp(net, "pardot_query") = 0
              /\ ENABLED SendPardotRequest
        /\ (pc = "return" \/ error # NoError) =>
              /\ CountOp(net, "pardot_query") = 1
              /\ net[Len(net)].op = "pardot_query"
              /\ net[Len(net)].headers["Authorization"] = <<"Bearer ", "None">>
              /\ error.at # "retrieve_access_token"

\* C5 witness: the whole raw-request pattern ran with the absent token
C5_Witness ==
    /\ blk = 4
    /\ pc = "return"
    /\ r.kind = "json"
    /\ "access_token" \notin DOMAIN r.body
    /\ access_token = NoneValue
    /\ CountOp(net, "pardot_query") = 1

\* run() is executing (the state is not that of a direct call)
InRun == pc \notin {"call", "called"}

\* the state of a block whose guard failed, and of one whose guard passed
C6_SkippedBlocks ==
    InRun =>
        \A b \in Blocks :
            /\ (blk = b /\ ~AllPresent(b)) =>
                  /\ pc = "check"
                  /\ error = NoError
                  /\ auth_handler = NoHandler
            /\ ~AllPresent(b) => NetOf(b) = <<>>
            /\ (blk > b /\ AllPresent(b)) => NetOf(b) # <<>>

\* has_sections called directly: true iff every named section exists
C6_HasSectionsResult ==
    call.fn = "has_sections" =>
        (call.result.value <=>
            \A i \in 1..Len(call.arg) : call.arg[i] \in DOMAIN parser)

\* the step of the guard: into the block, or past it with nothing done
C6_SkipStep ==
    (pc = "check" /\ error = NoError) =>
        IF AllPresent(blk)
        THEN blk' = blk /\ pc' = HandlerStep(blk)
        ELSE /\ blk' = blk + 1
             /\ pc' = (IF blk = 5 THEN "done" ELSE "check")
             /\ error' = NoError
             /\ net' = net
             /\ auth_handler' = NoHandler

\* C6: has_sections lets a block run iff every section it names is in the
\* configuration; a block whose guard names a section the configuration
\* lacks is skipped: no handler is built, no request is issued for it, no
\* error comes from it, and run() goes on with the next block.
C6_HasSectionsGuard ==
    /\ []C6_HasSectionsResult
    /\ []C6_SkippedBlocks
    /\ [][C6_SkipStep]_vars

\* C6 witness: the pardot sections are absent, the traditional pattern
\* issued nothing and the raw-request pattern is running
C6_Witness ==
    /\ ~AllPresent(1)
    /\ ~AllPresent(3)
    /\ blk = 4
    /\ pc = "return"
    /\ error = NoError
    /\ NetOfPattern("traditional") = <<>>
    /\ NetOfPattern("raw") # <<>>

PatternNames == {"traditional", "raw", "oauth_api"}

\* C7 as stated: each of the three access patterns performs at most one
\* authentication round trip and at most two resource calls, and no
\* authentication after a resource call of the same pattern.
C7_OneAuthTwoCallsPerPattern ==
    \A p \in PatternNames :
        /\ CountKind(NetOfPattern(p), "auth") <= 1
        /\ CountKind(NetOfPattern(p), "resource") <= 2
        /\ AuthFirst(NetOfPattern(p))

\* C7 amended: each guarded block of a pattern performs at most one
\* authentication round trip followed by at most two resource calls, with
\* no authentication after a resource call of the same block; the
\* traditional pattern runs up to three such blocks, so up to three
\* authentications and six resource calls.
C7_OneAuthTwoCallsPerBlock ==
    /\ \A b \in Blocks :
         /\ CountKind(NetOf(b), "auth") <= 1
         /\ CountKind(NetOf(b), "resource") <= 2
         /\ AuthFirst(NetOf(b))
    /\ \A i \in 1..Len(net) : net[i].blk \in Blocks
    /\ CountKind(NetOfPattern("traditional"), "auth") <= 3
    /\ CountKind(NetOfPattern("traditional"), "resource") <= 6
    /\ CountKind(NetOfPattern("raw"), "auth") <= 1
    /\ CountKind(NetOfPattern("raw"), "resource") <= 1
    /\ CountKind(NetOfPattern("oauth_api"), "auth") <= 1
    /\ CountKind(NetOfPattern("oauth_api"), "resource") <= 2

\* C7 witness: the traditional pattern ran its three blocks
C7_Witness ==
    /\ CountKind(NetOfPattern("traditional"), "auth") = 3
    /\ CountKind(NetOfPattern("traditional"), "resource") = 6
    /\ CountKind(NetOf(3), "resource") = 2

\* C8: when the section of the current access attempt lacks a credential
\* key of its variant, the attempt stops at the construction of the handler
\* with the missing-option error of get_auth_handler naming a missing key,
\* and no request has been issued for that attempt; such an attempt is
\* never completed.
C8_MissingKeyFailsBeforeNetwork ==
    \A b \in Blocks :
        MissingKeys(b) # {} =>
            /\ blk <= b
            /\ NetOf(b) = <<>>
            /\ blk = b =>
                  /\ pc \in {"check", HandlerStep(b)}
                  /\ error # NoError =>
                        /\ pc = HandlerStep(b)
                        /\ error.type = "NoOptionError"
                        /\ error.at = "get_auth_handler"
                        /\ error.arg[1] \in MissingKeys(b)
                  /\ (pc = HandlerStep(b) /\ error = NoError) =>
                        /\ ENABLED (BuildHandler \/ RetrieveAccessToken)
                        /\ ~ENABLED (Authenticate \/ ReadByEmail \/ SendPardotRequest)

\* C8 witness: the raw-request attempt failed on a salesforce section
\* without 'token', after the traditional pattern had issued its requests
C8_Witness ==
    /\ blk = 4
    /\ pc = "retrieve_token"
    /\ error = Err("NoOptionError", "get_auth_handler", <<"token">>)
    /\ NetOf(4) = <<>>
    /\ NetOf(1) # <<>>

\* requests are issued block after block, none twice
C9_Order ==
    /\ \A i, j \in 1..Len(net) :
         i < j => /\ net[i].blk <= net[j].blk
                  /\ ~(net[i].blk = net[j].blk /\ net[i].op = net[j].op)
    /\ \A i \in 1..Len(net) : net[i].blk <= blk
    /\ error # NoError => pc \notin {"check", "return", "done"}

\* a step starts without a pending exception and goes at most one block on
C9_Step ==
    /\ error = NoError
    /\ blk' \in {blk, blk + 1}
    /\ error' # NoError => (blk' = blk /\ pc' = pc)

\* C9: run() goes through the blocks in the fixed order traditional,
\* raw-request, OAuth API; nothing is retried; and once a block has raised,
\* nothing more happens: no later pattern starts and no request is issued.
C9_FailureAbortsRun == []C9_Order /\ [][C9_Step]_vars

\* C9 witness: the raw-request pattern failed on the Provider's reply
\* after the traditional pattern had run, and the OAuth API pattern issued
\* nothing
C9_Witness ==
    /\ blk = 4
    /\ pc = "send_request"
    /\ error.type = "ValueError"
    /\ NetOfPattern("traditional") # <<>>
    /\ NetOfPattern("oauth_api") = <<>>
    /\ AllPresent(5)

\* the configured filter, or the fixed fallback date
ExpectedFilter ==
    IF /\ "test_data" \in DOMAIN parser
       /\ "prospect_date_filter" \in DOMAIN parser["test_data"]
    THEN parser["test_data"]["prospect_date_filter"]
    ELSE "2021-01-01"

\* C10: every listing request, of send_pardot_request and of
\* query_pardot_api, carries as created_after the configured
\* prospect_date_filter, or "2021-01-01" when the key is not configured;
\* a failure of a listing statement comes after its request was issued.
C10_CreatedAfterFallback ==
    /\ \A i \in 1..Len(net) :
         net[i].op \in {"query", "pardot_query"} =>
             net[i].params["created_after"] = ExpectedFilter
    /\ (pc \in {"query", "send_request"} /\ error # NoError) =>
         /\ net # <<>>
         /\ net[Len(net)].blk = blk
         /\ net[Len(net)].op = (IF pc = "query" THEN "query" ELSE "pardot_query")
    /\ (pc = "return" /\ blk # 4) => CountOp(NetOf(blk), "query") = 1
    /\ (pc = "return" /\ blk = 4) => CountOp(NetOf(blk), "pardot_query") = 1

\* C10 witness: both call styles issued their listing request with the
\* fallback date, the key not being configured
C10_Witness ==
    /\ "test_data" \in DOMAIN parser
    /\ "prospect_date_filter" \notin DOMAIN parser["test_data"]
    /\ \E i \in 1..Len(net) :
         net[i].op = "query" /\ net[i].params["created_after"] = "2021-01-01"
    /\ \E i \in 1..Len(net) :
         net[i].op = "pardot_query" /\ net[i].params["created_after"] = "2021-01-01"

====
